---- MODULE Spec2Model ----
(***************************************************************************)
(* Model of SwiftBridgeModule::to_tokens (crates/swift-bridge-ir/src/      *)
(* to_tokens.rs): the generator that turns a bridge module (declared types *)
(* and functions, each hosted by Rust or by Swift) into the token stream   *)
(* of one `mod` holding the exported wrappers, the proxy structs and the   *)
(* `extern "C"` block.                                                     *)
(*                                                                         *)
(* A token stream is a flat sequence of tokens; a brace-delimited group is *)
(* an open token, its content, and a close token.                          *)
(***************************************************************************)
EXTENDS Integers, Sequences, FiniteSets, TLC

VARIABLES
    module,                       \* the SwiftBridgeModule `self`
    pc,                           \* position inside to_tokens
    i,                            \* index of the running `for` loop
    extern_rust_fn_tokens,        \* Vec<TokenStream>
    structs_for_swift_classes,    \* Vec<TokenStream>
    extern_swift_impl_fn_tokens,  \* HashMap<String, Vec<TokenStream>>: the entries
    iter_order,                   \* ... and the order in which it iterates its keys
    extern_swift_fn_tokens,       \* Vec<TokenStream>
    tokens,                       \* the output `tokens: &mut TokenStream`
    run,                          \* 1 for the first call of to_tokens, 2 for the second
    first_tokens,                 \* what the first call produced
    first_iter_order              \* the order in which the first call's HashMap iterated

vars == << module, pc, i, extern_rust_fn_tokens, structs_for_swift_classes,
           extern_swift_impl_fn_tokens, iter_order, extern_swift_fn_tokens, tokens,
           run, first_tokens, first_iter_order >>

-----------------------------------------------------------------------------
(* Bounds of the enumerated modules *)

\* the number of declarations, types and functions together, of a module
MaxDecls == 4

TypeIdents == {"T", "U", "V"}

FnIdents == {"f", "_free"}

ModNames == {"foo"}

-----------------------------------------------------------------------------
(* The IR *)

SWIFT_BRIDGE_PREFIX == "__swift_bridge__"

Rust == "Rust"

Swift == "Swift"

HostLang == {Rust, Swift}

SelfReceivers == {"None", "Borrowed", "MutablyBorrowed", "Owned"}

\* Option<T>: None is the empty sequence, Some(x) is <<x>>
None == << >>

Some(x) == << x >>

Injective(s) == \A a, b \in DOMAIN s : a # b => s[a] # s[b]

SeqsUpTo(S, n) == UNION { [1..k -> S] : k \in 0..n }

TypeDecls(idents) == [ident : idents, host_lang : HostLang]

\* type identifiers are unique within a module
TypeLists(idents) ==
    { ts \in SeqsUpTo(TypeDecls(idents), MaxDecls) :
        Injective([k \in DOMAIN ts |-> ts[k].ident]) }

\* an associated type is one of the module's types; a receiver needs one
FuncDecls(ts, idents, receivers) ==
    { f \in [ident : idents, host_lang : HostLang,
             associated_type : {None} \cup { Some(ts[k].ident) : k \in DOMAIN ts },
             receiver : receivers] :
        f.receiver # "None" => f.associated_type # None }

\* no two functions have the same name on the same type
FuncLists(ts, idents, receivers) ==
    { fs \in SeqsUpTo(FuncDecls(ts, idents, receivers), MaxDecls - Len(ts)) :
        Injective([k \in DOMAIN fs |-> << fs[k].associated_type, fs[k].ident >>]) }

-----------------------------------------------------------------------------
(* Tokens *)

Tok(kind, ident, link, calls, this) ==
    [kind |-> kind, ident |-> ident, link_name |-> link, calls |-> calls, this |-> this]

RECURSIVE Flatten(_)
\* quote!'s #(#v)* : the streams of a Vec<TokenStream>, one after the other
Flatten(v) == IF v = << >> THEN << >> ELSE Head(v) \o Flatten(Tail(v))

\* PREFIX$[Type$]fn
fn_link_name(func) ==
    SWIFT_BRIDGE_PREFIX \o "$"
        \o (IF func.associated_type = None THEN "" ELSE func.associated_type[1] \o "$")
        \o func.ident

\* PREFIX[Type_]fn
prefixed_fn_name(func) ==
    SWIFT_BRIDGE_PREFIX
        \o (IF func.associated_type = None THEN "" ELSE func.associated_type[1] \o "_")
        \o func.ident

this_handling_borrowed_owns(receiver) ==
    CASE receiver = "None" -> ""
      [] receiver = "Borrowed" -> "*Box::from_raw(this)"
      [] receiver = "MutablyBorrowed" -> "&mut *this"
      [] receiver = "Owned" -> "*Box::from_raw(this)"

\* what an exported wrapper does with its `this` pointer before the call
this_handling(receiver) ==
    CASE receiver = "None" -> ""
      [] receiver = "Borrowed" -> "&*this"
      [] receiver = "MutablyBorrowed" -> "&mut *this"
      [] receiver = "Owned" -> "*Box::from_raw(this)"

\* the path an exported wrapper forwards to
rust_call_path(func) ==
    IF func.associated_type = None THEN "super::" \o func.ident
    ELSE IF func.receiver = "None"
         THEN "super::" \o func.associated_type[1] \o "::" \o func.ident
         ELSE "." \o func.ident

\* ParsedExternFn::to_extern_c_function_tokens
to_extern_c_function_tokens(func) ==
    IF func.host_lang = Rust
    THEN << Tok("export_fn", prefixed_fn_name(func), fn_link_name(func),
                rust_call_path(func), this_handling(func.receiver)) >>
    ELSE << Tok("extern_fn_decl", prefixed_fn_name(func), fn_link_name(func), "",
                IF func.receiver = "None" THEN "" ELSE "this: *mut c_void") >>

\* ParsedExternFn::to_impl_fn_calls_swift
to_impl_fn_calls_swift(func) ==
    << Tok("impl_fn", func.ident, "", prefixed_fn_name(func),
           IF func.receiver = "None" THEN "" ELSE "self.0") >>

-----------------------------------------------------------------------------
(* to_tokens *)

\* HashMap::entry(k).or_default().push(t)
EntryOrDefaultPush(m, k, t) ==
    [key \in DOMAIN m \cup {k} |->
        IF key = k THEN Append(IF k \in DOMAIN m THEN m[k] ELSE << >>, t) ELSE m[key]]

InsertAt(s, p, x) == SubSeq(s, 1, p - 1) \o << x >> \o SubSeq(s, p, Len(s))

\* the iteration orders the map may have after entry(k): a new key lands at
\* the place its hash gives it, which is any; the keys already there stay
OrdersAfterEntry(order, k) ==
    IF \E n \in DOMAIN order : order[n] = k THEN { order }
    ELSE { InsertAt(order, p, k) : p \in 1..(Len(order) + 1) }

\* HashMap::get
MapGet(m, k) == IF k \in DOMAIN m THEN Some(m[k]) ELSE None

\* the functions `for func in &self.functions` visits, in order
FunctionsToVisit == module.functions

\* the types that have an entry in the map, in the order the map iterates
\* them, then the other types
TypesToVisit_hash_order ==
    LET typeOf(id) ==
            CHOOSE ty \in { module.types[n] : n \in DOMAIN module.types } : ty.ident = id
        declared(id) == \E n \in DOMAIN module.types : module.types[n].ident = id
        unkeyed(ty) == \A n \in DOMAIN iter_order : iter_order[n] # ty.ident
        keyed == SelectSeq(iter_order, declared)
    IN  [n \in DOMAIN keyed |-> typeOf(keyed[n])] \o SelectSeq(module.types, unkeyed)

\* the types `for ty in &self.types` visits, in order
TypesToVisit == module.types

AfterFunctions(idx) ==
    IF idx <= Len(FunctionsToVisit) THEN "functions"
    ELSE IF Len(TypesToVisit) > 0 THEN "types" ELSE "externs"

AfterTypes(idx) == IF idx <= Len(TypesToVisit) THEN "types" ELSE "externs"

\* the locals of to_tokens are created
Begin ==
    /\ pc = "start"
    /\ extern_rust_fn_tokens' = << >>
    /\ structs_for_swift_classes' = << >>
    /\ extern_swift_impl_fn_tokens' = << >>
    /\ iter_order' = << >>
    /\ extern_swift_fn_tokens' = << >>
    /\ i' = 1
    /\ pc' = AfterFunctions(1)
    /\ UNCHANGED << module, tokens, run, first_tokens, first_iter_order >>

\* what the Swift arm adds to the map of impl fns
SwiftImplFnTokens(m, func) ==
    IF func.associated_type # None
    THEN EntryOrDefaultPush(m, func.associated_type[1], to_impl_fn_calls_swift(func))
    ELSE m

SwiftFnTokens_forwarder(v, func) ==
    IF func.associated_type = None
    THEN Append(Append(v, to_extern_c_function_tokens(func)), to_impl_fn_calls_swift(func))
    ELSE Append(v, to_extern_c_function_tokens(func))

SwiftFnTokens_unassociated_only(v, func) ==
    IF func.associated_type = None
    THEN Append(v, to_extern_c_function_tokens(func))
    ELSE v

\* what the Swift arm adds to extern_swift_fn_tokens
SwiftFnTokens(v, func) == Append(v, to_extern_c_function_tokens(func))

\* one iteration of `for func in &self.functions`
ForFunc ==
    /\ pc = "functions"
    /\ i <= Len(FunctionsToVisit)
    /\ LET func == FunctionsToVisit[i] IN
        IF func.host_lang = Rust
        THEN /\ extern_rust_fn_tokens' =
                    Append(extern_rust_fn_tokens, to_extern_c_function_tokens(func))
             /\ UNCHANGED << extern_swift_impl_fn_tokens, iter_order,
                             extern_swift_fn_tokens >>
        ELSE /\ extern_swift_impl_fn_tokens' =
                    SwiftImplFnTokens(extern_swift_impl_fn_tokens, func)
             /\ iter_order' \in
                    IF func.associated_type # None
                    THEN OrdersAfterEntry(iter_order, func.associated_type[1])
                    ELSE { iter_order }
             /\ extern_swift_fn_tokens' = SwiftFnTokens(extern_swift_fn_tokens, func)
             /\ UNCHANGED extern_rust_fn_tokens
    /\ i' = IF i < Len(FunctionsToVisit) THEN i + 1 ELSE 1
    /\ pc' = AfterFunctions(i + 1)
    /\ UNCHANGED << module, structs_for_swift_classes, tokens, run, first_tokens,
                    first_iter_order >>

link_name_no_dollar(ty) == SWIFT_BRIDGE_PREFIX \o "$" \o ty.ident \o "_free"

link_name(ty) == SWIFT_BRIDGE_PREFIX \o "$" \o ty.ident \o "$_free"

free_mem_func_name(ty) == SWIFT_BRIDGE_PREFIX \o ty.ident \o "__free"

\* the exported free function of a Rust type
rust_free(ty) ==
    << Tok("export_free", free_mem_func_name(ty), link_name(ty), "drop",
           "Box::from_raw(this)") >>

impls_empty_block(m, ty) ==
    LET got == MapGet(m, ty.ident) IN
    << Tok("impl_open", ty.ident, "", "", "") >>
        \o (IF got # None THEN Flatten(got[1]) ELSE << >>)
        \o << Tok("impl_close", ty.ident, "", "", "") >>

\* the `impl T { .. }` block of a Swift type, or nothing
impls(m, ty) ==
    LET got == MapGet(m, ty.ident) IN
    IF got # None /\ Len(got[1]) > 0
    THEN << Tok("impl_open", ty.ident, "", "", "") >>
            \o Flatten(got[1])
            \o << Tok("impl_close", ty.ident, "", "", "") >>
    ELSE << >>

\* struct, impl block and Drop impl of a Swift type
struct_tokens(m, ty) ==
    << Tok("struct", ty.ident, "", "", "*mut c_void") >>
        \o impls(m, ty)
        \o << Tok("drop", ty.ident, "", free_mem_func_name(ty), "self.0") >>

\* the linked declaration of the free function of a Swift type
swift_free(ty) ==
    << Tok("extern_free_decl", free_mem_func_name(ty), link_name(ty), "",
           "this: *mut c_void") >>

\* one iteration of `for ty in &self.types`
ForType ==
    /\ pc = "types"
    /\ i <= Len(TypesToVisit)
    /\ LET ty == TypesToVisit[i] IN
        IF ty.host_lang = Rust
        THEN /\ extern_rust_fn_tokens' = Append(extern_rust_fn_tokens, rust_free(ty))
             /\ UNCHANGED << structs_for_swift_classes, extern_swift_fn_tokens >>
        ELSE /\ structs_for_swift_classes' =
                    Append(structs_for_swift_classes,
                           struct_tokens(extern_swift_impl_fn_tokens, ty))
             /\ extern_swift_fn_tokens' = Append(extern_swift_fn_tokens, swift_free(ty))
             /\ UNCHANGED extern_rust_fn_tokens
    /\ i' = IF i < Len(TypesToVisit) THEN i + 1 ELSE 1
    /\ pc' = AfterTypes(i + 1)
    /\ UNCHANGED << module, extern_swift_impl_fn_tokens, iter_order, tokens, run,
                    first_tokens, first_iter_order >>

HasExternBlock_structs == Len(structs_for_swift_classes) > 0

\* whether the `extern "C"` block is written
HasExternBlock == Len(extern_swift_fn_tokens) > 0

externs_structs_first ==
    IF HasExternBlock
    THEN Flatten(structs_for_swift_classes)
            \o Flatten(extern_rust_fn_tokens)
            \o << Tok("extern_open", "C", "", "", "") >>
            \o Flatten(extern_swift_fn_tokens)
            \o << Tok("extern_close", "C", "", "", "") >>
    ELSE Flatten(extern_rust_fn_tokens)

\* the body of the module
externs ==
    IF HasExternBlock
    THEN Flatten(extern_rust_fn_tokens)
            \o Flatten(structs_for_swift_classes)
            \o << Tok("extern_open", "C", "", "", "") >>
            \o Flatten(extern_swift_fn_tokens)
            \o << Tok("extern_close", "C", "", "", "") >>
    ELSE Flatten(extern_rust_fn_tokens)

\* the module is assembled and appended to the output
Emit ==
    /\ pc = "externs"
    /\ tokens' = tokens
                    \o << Tok("mod_open", module.name, "", "", "") >>
                    \o externs
                    \o << Tok("mod_close", module.name, "", "", "") >>
    /\ pc' = "done"
    /\ UNCHANGED << module, i, extern_rust_fn_tokens, structs_for_swift_classes,
                    extern_swift_impl_fn_tokens, iter_order, extern_swift_fn_tokens,
                    run, first_tokens, first_iter_order >>

\* to_tokens is called again on the same module, into a fresh stream
Rerun ==
    /\ pc = "done"
    /\ run = 1
    /\ run' = 2
    /\ first_tokens' = tokens
    /\ first_iter_order' = iter_order
    /\ tokens' = << >>
    /\ pc' = "start"
    /\ UNCHANGED << module, i, extern_rust_fn_tokens, structs_for_swift_classes,
                    extern_swift_impl_fn_tokens, iter_order, extern_swift_fn_tokens >>

-----------------------------------------------------------------------------
(* Specifications *)

InitModule(typeIdents, fnIdents, receivers) ==
    /\ \E name \in ModNames : \E ts \in TypeLists(typeIdents) :
         \E fs \in FuncLists(ts, fnIdents, receivers) :
            module = [name |-> name, types |-> ts, functions |-> fs]
    /\ pc = "start"
    /\ i = 1
    /\ extern_rust_fn_tokens = << >>
    /\ structs_for_swift_classes = << >>
    /\ extern_swift_impl_fn_tokens = << >>
    /\ iter_order = << >>
    /\ extern_swift_fn_tokens = << >>
    /\ tokens = << >>
    /\ run = 1
    /\ first_tokens = << >>
    /\ first_iter_order = << >>

\* modules over three type names and the function names f and _free
Init == InitModule(TypeIdents, FnIdents, {"None", "Borrowed"})

Next == Begin \/ ForFunc \/ ForType \/ Emit

Spec == Init /\ [][Next]_vars

\* modules over one type name, with every kind of receiver
InitReceivers == InitModule({"T"}, {"f", "g"}, SelfReceivers)

SpecReceivers == InitReceivers /\ [][Next]_vars

\* to_tokens called twice on one module
InitTwice == InitModule(TypeIdents, {"f"}, {"None", "Borrowed"})

NextTwice == Begin \/ ForFunc \/ ForType \/ Emit \/ Rerun

SpecTwice == InitTwice /\ [][NextTwice]_vars

-----------------------------------------------------------------------------
(* Vocabulary of the properties *)

Done == pc = "done"

TypeOK ==
    /\ pc \in {"start", "functions", "types", "externs", "done"}
    /\ run \in {1, 2}
    /\ i \in 1..(MaxDecls + 1)
    /\ DOMAIN extern_swift_impl_fn_tokens = { iter_order[n] : n \in DOMAIN iter_order }

Types == module.types

Functions == module.functions

\* positions of the output holding a token of one of the kinds
KindAt(kinds) == { j \in DOMAIN tokens : tokens[j].kind \in kinds }

Count(S) == Cardinality(S)

\* the naming scheme, written out
FreeSymbol(T) == "__swift_bridge__$" \o T \o "$_free"

FreeIdentifier(T) == "__swift_bridge__" \o T \o "__free"

ForeignTypes == { k \in DOMAIN Types : Types[k].host_lang = "Swift" }

NativeTypes == { k \in DOMAIN Types : Types[k].host_lang = "Rust" }

ForeignFunctions == { k \in DOMAIN Functions : Functions[k].host_lang = "Swift" }

NativeFunctions == { k \in DOMAIN Functions : Functions[k].host_lang = "Rust" }

HasForeignDecl == ForeignTypes # {} \/ ForeignFunctions # {}

\* position j lies inside an `extern "C" { .. }` block
InLinkage(j) ==
    \E o \in KindAt({"extern_open"}) : \E c \in KindAt({"extern_close"}) : o < j /\ j < c

\* position j lies before every proxy token and before the linkage block
InNativeSection(j) ==
    \A q \in KindAt({"struct", "impl_open", "impl_fn", "impl_close", "drop",
                     "extern_open", "extern_fn_decl", "extern_free_decl",
                     "extern_close"}) : j < q

\* C1: the output holds exactly one `extern "C"` block when the module declares
\* a Swift function or a Swift type, and none when it declares neither.
C1_LinkageBlockIffForeign ==
    Done => /\ Count(KindAt({"extern_open"})) = (IF HasForeignDecl THEN 1 ELSE 0)
            /\ Count(KindAt({"extern_close"})) = (IF HasForeignDecl THEN 1 ELSE 0)

C1_Witness ==
    /\ Done
    /\ ForeignFunctions # {}
    /\ ForeignTypes = {}
    /\ NativeTypes # {}
    /\ Count(KindAt({"extern_open"})) = 1

\* the free-glue items of the output that carry the link name or the local
\* identifier of type T
FreeGlueOf(T) ==
    { j \in KindAt({"export_free", "extern_free_decl"}) :
        tokens[j].link_name = FreeSymbol(T) \/ tokens[j].ident = FreeIdentifier(T) }

\* C2: every declared type, with or without functions, has exactly one
\* free-glue item named PREFIX$T$_free / PREFIX+T+__free: an exported function
\* in the Native section for a Rust type, a linked declaration inside the
\* linkage block for a Swift type.
C2_OneFreeGluePerType ==
    Done => \A k \in DOMAIN Types :
        LET T == Types[k].ident IN
        /\ Count(FreeGlueOf(T)) = 1
        /\ \A j \in FreeGlueOf(T) :
            /\ tokens[j].link_name = FreeSymbol(T)
            /\ tokens[j].ident = FreeIdentifier(T)
            /\ IF Types[k].host_lang = "Rust"
               THEN tokens[j].kind = "export_free" /\ InNativeSection(j)
               ELSE tokens[j].kind = "extern_free_decl" /\ InLinkage(j)

C2_Witness ==
    /\ Done
    /\ Len(Types) = 2
    /\ NativeTypes # {} /\ ForeignTypes # {}
    /\ \E k \in DOMAIN Types :
         /\ \A f \in DOMAIN Functions : Functions[f].associated_type # << Types[k].ident >>
         /\ Count(FreeGlueOf(Types[k].ident)) = 1
    /\ \E k \in DOMAIN Types : \E f \in DOMAIN Functions :
         Functions[f].associated_type = << Types[k].ident >>

\* the Swift functions associated to the type named T
ForeignMethodsOf(T) ==
    { f \in ForeignFunctions : Functions[f].associated_type = << T >> }

\* the Swift functions associated to no type
ForeignFreeFunctions ==
    { f \in ForeignFunctions : Functions[f].associated_type = << >> }

ImplBlocksOf(T) == { o \in KindAt({"impl_open"}) : tokens[o].ident = T }

\* position j lies inside an `impl T { .. }` block
InImplBlock(T, j) ==
    \E o \in ImplBlocksOf(T) : \E c \in KindAt({"impl_close"}) :
        /\ o < j /\ j < c
        /\ \A q \in KindAt({"impl_open", "impl_close"}) : ~(o < q /\ q < c)

\* position j lies inside some impl block
InSomeImplBlock(j) == \E k \in DOMAIN Types : InImplBlock(Types[k].ident, j)

\* the forwarding functions of the output for function f
ForwardersOf(f) ==
    { j \in KindAt({"impl_fn"}) :
        /\ tokens[j].ident = Functions[f].ident
        /\ tokens[j].calls =
             "__swift_bridge__"
                \o (IF Functions[f].associated_type = << >> THEN ""
                    ELSE Functions[f].associated_type[1] \o "_")
                \o Functions[f].ident }

\* the methods of a type with Swift methods sit, once each and in declaration
\* order, in the one impl block of that type
GroupedInOneBlock(T) ==
    ForeignMethodsOf(T) # {} =>
        /\ Count(ImplBlocksOf(T)) = 1
        /\ \A f \in ForeignMethodsOf(T) :
            /\ Count(ForwardersOf(f)) = 1
            /\ \A j \in ForwardersOf(f) : InImplBlock(T, j)
        /\ \A f, g \in ForeignMethodsOf(T) :
            f < g => \A a \in ForwardersOf(f) : \A b \in ForwardersOf(g) : a < b

\* C3: for every declared type T, Rust or Swift, every Swift function
\* associated to T has its forwarding method exactly once in the output,
\* inside the single impl block of T, the methods in declaration order.
C3_MethodsGroupedForEveryType ==
    Done => \A k \in DOMAIN Types : GroupedInOneBlock(Types[k].ident)

\* the linked declarations of the output for function f
DeclarationsOf(f) ==
    { j \in KindAt({"extern_fn_decl"}) :
        tokens[j].link_name =
            "__swift_bridge__$"
                \o (IF Functions[f].associated_type = << >> THEN ""
                    ELSE Functions[f].associated_type[1] \o "$")
                \o Functions[f].ident }

\* C4, as claimed: every Swift function without an associated type has, besides
\* its linked declaration, one forwarding free function that calls it.
C4_FreeFunctionForwarded ==
    Done => \A f \in ForeignFreeFunctions :
        /\ Count(DeclarationsOf(f)) = 1
        /\ Count(ForwardersOf(f)) = 1

\* C4, amended: every Swift function without an associated type has exactly
\* its linked declaration, inside the linkage block, and no forwarding
\* function: every forwarding function of the output is a method inside an
\* impl block.
C4_FreeFunctionDeclaredOnly ==
    Done =>
        /\ \A f \in ForeignFreeFunctions :
            /\ Count(DeclarationsOf(f)) = 1
            /\ \A j \in DeclarationsOf(f) :
                /\ tokens[j].ident = "__swift_bridge__" \o Functions[f].ident
                /\ InLinkage(j)
            /\ ForwardersOf(f) = {}
        /\ \A j \in KindAt({"impl_fn"}) : InSomeImplBlock(j)

C4_Witness ==
    /\ Done
    /\ ForeignFreeFunctions # {}
    /\ \E f \in ForeignFreeFunctions : Count(DeclarationsOf(f)) = 1
    /\ KindAt({"impl_fn"}) # {}

\* C5: a second call of to_tokens on the same module, whose HashMap may
\* iterate in another order, yields the output of the first call.
C5_SecondRunSameOutput == (run = 2 /\ Done) => tokens = first_tokens

C5_Witness ==
    /\ run = 2
    /\ Done
    /\ iter_order # first_iter_order
    /\ Len(iter_order) = 2
    /\ Count(KindAt({"impl_open"})) = 2
    /\ tokens = first_tokens

\* the exported wrappers of the output for function f
WrappersOf(f) ==
    { j \in KindAt({"export_fn"}) :
        tokens[j].ident =
            "__swift_bridge__"
                \o (IF Functions[f].associated_type = << >> THEN ""
                    ELSE Functions[f].associated_type[1] \o "_")
                \o Functions[f].ident }

\* the wrapper at position j takes ownership of `this`
ReleasesThis(j) ==
    tokens[j].this \in {"*Box::from_raw(this)", "Box::from_raw(this)"}

\* C6: the exported wrapper of a Rust function with a receiver takes ownership
\* of `this` (Box::from_raw) exactly when the receiver is Owned; for Borrowed it
\* reborrows &*this and for MutablyBorrowed &mut *this, releasing nothing.
C6_OwnedReceiverOnlyReleasesThis ==
    Done => \A f \in NativeFunctions :
        Functions[f].receiver # "None" =>
            /\ Count(WrappersOf(f)) = 1
            /\ \A j \in WrappersOf(f) :
                /\ ReleasesThis(j) <=> Functions[f].receiver = "Owned"
                /\ Functions[f].receiver = "Borrowed" => tokens[j].this = "&*this"
                /\ Functions[f].receiver = "MutablyBorrowed" =>
                        tokens[j].this = "&mut *this"

C6_Witness ==
    /\ Done
    /\ \E f, g \in NativeFunctions :
        /\ Functions[f].receiver = "Owned"
        /\ Functions[g].receiver = "Borrowed"
        /\ \E j \in WrappersOf(f) : ReleasesThis(j)
        /\ \E j \in WrappersOf(g) : ~ReleasesThis(j)

\* the local identifier PREFIX[Type_]fn and the link name PREFIX$[Type$]fn
LocalName(func) ==
    "__swift_bridge__"
        \o (IF func.associated_type = << >> THEN "" ELSE func.associated_type[1] \o "_")
        \o func.ident

LinkName(func) ==
    "__swift_bridge__$"
        \o (IF func.associated_type = << >> THEN "" ELSE func.associated_type[1] \o "$")
        \o func.ident

IsRust(d) == d.host_lang = "Rust"

IsSwift(d) == d.host_lang = "Swift"

\* the declarations of each side, in declaration order
NativeFunctionSeq == SelectSeq(Functions, IsRust)

NativeTypeSeq == SelectSeq(Types, IsRust)

ForeignFunctionSeq == SelectSeq(Functions, IsSwift)

ForeignTypeSeq == SelectSeq(Types, IsSwift)

IsStruct(t) == t.kind = "struct"

ProxyKinds == {"struct", "impl_open", "impl_fn", "impl_close", "drop"}

\* C7: inside the one `mod <name>` the output is: one exported wrapper per Rust
\* function in declaration order, one free function per Rust type in
\* declaration order, the proxies of the Swift types in declaration order, and
\* the linkage block (if any) last; no Rust item comes after a proxy or inside
\* the linkage block.
C7_EmissionOrder ==
    Done =>
        LET nf == Len(NativeFunctionSeq)
            nt == Len(NativeTypeSeq)
            last == Len(tokens)
            structs == SelectSeq(tokens, IsStruct)
        IN  /\ KindAt({"mod_open"}) = {1}
            /\ KindAt({"mod_close"}) = {last}
            /\ tokens[1].ident = module.name
            /\ \A k \in 1..nf :
                /\ tokens[1 + k].kind = "export_fn"
                /\ tokens[1 + k].ident = LocalName(NativeFunctionSeq[k])
            /\ \A k \in 1..nt :
                /\ tokens[1 + nf + k].kind = "export_free"
                /\ tokens[1 + nf + k].ident = FreeIdentifier(NativeTypeSeq[k].ident)
            /\ KindAt({"export_fn", "export_free"}) = 2..(1 + nf + nt)
            /\ Len(structs) = Len(ForeignTypeSeq)
            /\ \A k \in DOMAIN structs : structs[k].ident = ForeignTypeSeq[k].ident
            /\ \A a \in KindAt(ProxyKinds) : \A o \in KindAt({"extern_open"}) : a < o
            /\ \A c \in KindAt({"extern_close"}) : c = last - 1

C7_Witness ==
    /\ Done
    /\ Len(NativeFunctionSeq) = 2
    /\ Len(NativeTypeSeq) = 1
    /\ Len(ForeignTypeSeq) = 1
    /\ tokens[2].kind = "export_fn"
    /\ tokens[4].kind = "export_free"
    /\ tokens[5].kind = "struct"
    /\ tokens[Len(tokens) - 1].kind = "extern_close"

StructsOf(T) == { j \in KindAt({"struct"}) : tokens[j].ident = T }

DropsOf(T) == { j \in KindAt({"drop"}) : tokens[j].ident = T }

\* C8: every Swift type has exactly one proxy in the output: one struct holding
\* one opaque pointer and one Drop impl calling the type's free identifier on
\* it; an impl block lies between them exactly when a Swift function is
\* associated to the type, and it is never empty. Every proxy built is emitted.
C8_OneProxyPerForeignType ==
    Done =>
        /\ \A k \in ForeignTypes :
            LET T == Types[k].ident IN
            /\ Count(StructsOf(T)) = 1
            /\ Count(DropsOf(T)) = 1
            /\ Count(ImplBlocksOf(T)) = (IF ForeignMethodsOf(T) # {} THEN 1 ELSE 0)
            /\ \A a \in StructsOf(T) : \A d \in DropsOf(T) :
                /\ tokens[a].this = "*mut c_void"
                /\ tokens[d].calls = FreeIdentifier(T)
                /\ tokens[d].this = "self.0"
                /\ IF ForeignMethodsOf(T) = {} THEN d = a + 1
                   ELSE /\ \A o \in ImplBlocksOf(T) :
                            o = a + 1 /\ tokens[o + 1].kind = "impl_fn"
                        /\ tokens[d - 1].kind = "impl_close"
                        /\ \A j \in (a + 2)..(d - 2) : tokens[j].kind = "impl_fn"
        /\ Count(KindAt({"struct"})) = Len(structs_for_swift_classes)

C8_Witness ==
    /\ Done
    /\ Count(ForeignTypes) = 2
    /\ \E k \in ForeignTypes : ForeignMethodsOf(Types[k].ident) = {}
    /\ \E k \in ForeignTypes :
        /\ ForeignMethodsOf(Types[k].ident) # {}
        /\ Count(ImplBlocksOf(Types[k].ident)) = 1
    /\ \E f \in NativeFunctions : Functions[f].associated_type # << >>

GlueKinds == {"export_fn", "export_free", "extern_fn_decl", "extern_free_decl"}

\* C9: when the type identifiers are pairwise distinct and the function
\* identifiers are pairwise distinct, no two glue items of the output have
\* the same local identifier.
C9_LocalIdentifiersDistinct ==
    ( /\ Done
      /\ \A a, b \in DOMAIN Types : a # b => Types[a].ident # Types[b].ident
      /\ \A a, b \in DOMAIN Functions : a # b => Functions[a].ident # Functions[b].ident )
    => \A a, b \in KindAt(GlueKinds) : a # b => tokens[a].ident # tokens[b].ident

\* C10: the linkage block holds exactly one linked declaration per Swift
\* function, in declaration order, then one free declaration per Swift type, in
\* declaration order, and nothing else; no linked declaration lies outside it.
C10_LinkageBlockContent ==
    Done =>
      /\ KindAt({"extern_open"}) = {} =>
            KindAt({"extern_fn_decl", "extern_free_decl"}) = {}
      /\ \A o \in KindAt({"extern_open"}) : \A c \in KindAt({"extern_close"}) :
        LET nf == Len(ForeignFunctionSeq)
            nt == Len(ForeignTypeSeq)
        IN  /\ c - o - 1 = nf + nt
            /\ \A k \in 1..nf :
                /\ tokens[o + k].kind = "extern_fn_decl"
                /\ tokens[o + k].link_name = LinkName(ForeignFunctionSeq[k])
                /\ tokens[o + k].ident = LocalName(ForeignFunctionSeq[k])
            /\ \A k \in 1..nt :
                /\ tokens[o + nf + k].kind = "extern_free_decl"
                /\ tokens[o + nf + k].link_name = FreeSymbol(ForeignTypeSeq[k].ident)
                /\ tokens[o + nf + k].ident = FreeIdentifier(ForeignTypeSeq[k].ident)
            /\ KindAt({"extern_fn_decl", "extern_free_decl"}) = (o + 1)..(c - 1)

C10_Witness ==
    /\ Done
    /\ Count(KindAt({"extern_open"})) = 1
    /\ Len(ForeignFunctionSeq) = 2
    /\ Len(ForeignTypeSeq) = 1
    /\ NativeFunctions = {} /\ NativeTypes # {}
    /\ \E f \in ForeignFunctions : Functions[f].associated_type # << >>
    /\ Count(KindAt({"extern_fn_decl", "extern_free_decl"})) = 3

\* C11: when the type identifiers are pairwise distinct and the function
\* identifiers are pairwise distinct, no two glue items of the output have
\* the same link name: the free symbol of a type is the link name of no
\* function, and two functions never share a link name.
C11_LinkNamesDistinct ==
    ( /\ Done
      /\ \A a, b \in DOMAIN Types : a # b => Types[a].ident # Types[b].ident
      /\ \A a, b \in DOMAIN Functions : a # b => Functions[a].ident # Functions[b].ident )
    => \A a, b \in KindAt(GlueKinds) :
            a # b => tokens[a].link_name # tokens[b].link_name

====
